---- MODULE Spec2Model ----
(***************************************************************************)
(* Weight-and-balance engine of streamlit_app.py: compute_cg, the          *)
(* adjustment resolver of the Calculate block and its duplicate in         *)
(* build_pdf_report.                                                       *)
(*                                                                         *)
(* Numbers.  Every Python float is modelled as an exact rational <<n, d>>  *)
(* in lowest terms with d > 0.  IEEE-754 rounding is not modelled: the     *)
(* properties below are statements about the arithmetic the code writes    *)
(* down, which the floats follow up to rounding.  Optional[float] is a     *)
(* rational or None (the empty tuple).                                     *)
(***************************************************************************)
EXTENDS Integers, Sequences, FiniteSets, TLC

\* ------------------------------------------------------------ numbers ----

None == <<>>

Abs(x) == IF x < 0 THEN -x ELSE x

RECURSIVE GCD(_, _)
GCD(a, b) == IF b = 0 THEN a ELSE GCD(b, a % b)

\* The rational n/d (d # 0) in lowest terms with a positive denominator.
Rat(n, d) ==
    LET s == IF d < 0 THEN -1 ELSE 1
        g == GCD(Abs(n), Abs(d))
    IN  <<(s * n) \div g, (s * d) \div g>>

\* An integer literal as a float.
Q(i) == <<i, 1>>

Zero == Q(0)

RNeg(a) == <<-a[1], a[2]>>

\* a + b
RAdd(a, b) ==
    LET g == GCD(a[2], b[2])
    IN  Rat(a[1] * (b[2] \div g) + b[1] * (a[2] \div g), (a[2] \div g) * b[2])

\* a - b
RSub(a, b) == RAdd(a, RNeg(b))

\* a * b
RMul(a, b) ==
    LET g1 == GCD(Abs(a[1]), b[2])
        g2 == GCD(Abs(b[1]), a[2])
    IN  <<(a[1] \div g1) * (b[1] \div g2), (a[2] \div g2) * (b[2] \div g1)>>

\* What a division by zero yields instead of a number: Python raises
\* ZeroDivisionError there.
ZeroDivisionError == <<0, 0>>

\* a / b
RDiv(a, b) ==
    IF b[1] = 0 THEN ZeroDivisionError
    ELSE RMul(a, IF b[1] > 0 THEN <<b[2], b[1]>> ELSE <<-b[2], -b[1]>>)

\* a > 0
RPos(a) == a[1] > 0

\* sum(f(x) for x in s): Python's sum starts at 0 and adds left to right.
RECURSIVE SumFrom(_, _, _)
SumFrom(acc, s, i) ==
    IF i > Len(s) THEN acc ELSE SumFrom(RAdd(acc, s[i]), s, i + 1)

PySum(s) == SumFrom(Zero, s, 1)

\* -------------------------------------------------- core data structures ----

WeighPoint(name, weight, arm, serial) ==
    [name |-> name, weight |-> weight, arm |-> arm, serial |-> serial]

CGResult(total_weight, total_moment, cg_arm, mac_percent) ==
    [total_weight |-> total_weight, total_moment |-> total_moment,
     cg_arm |-> cg_arm, mac_percent |-> mac_percent]

NoResult == CGResult(None, None, None, None)

\* The outcome of a call: the value it returned, or the message of the
\* exception it raised.
Returned(v) == [raised |-> FALSE, msg |-> "", value |-> v]
Raised(m) == [raised |-> TRUE, msg |-> m, value |-> NoResult]

NoPointsMsg == "No weighing points provided."
NonPositiveMsg == "Total weight must be positive."
DivisionMsg == "float division by zero"

\* Mutant: the sum starts at the second point.
TotalWeightSkipFirst(weigh_points) ==
    SumFrom(Zero, [i \in 1..Len(weigh_points) |-> weigh_points[i].weight], 2)

\* sum(p.weight for p in weigh_points)
TotalWeight(weigh_points) ==
    PySum([i \in 1..Len(weigh_points) |-> weigh_points[i].weight])

\* Mutant: the arms are summed without their weights.
TotalMomentArmsOnly(weigh_points) ==
    PySum([i \in 1..Len(weigh_points) |-> weigh_points[i].arm])

\* Mutant: the arm enters the moment without its sign.
TotalMomentAbsArm(weigh_points) ==
    PySum([i \in 1..Len(weigh_points) |->
             RMul(weigh_points[i].weight,
                  Rat(Abs(weigh_points[i].arm[1]), weigh_points[i].arm[2]))])

\* sum(p.weight * p.arm for p in weigh_points)
TotalMoment(weigh_points) ==
    PySum([i \in 1..Len(weigh_points) |->
             RMul(weigh_points[i].weight, weigh_points[i].arm)])

\* Mutant: the total weight is checked before the emptiness of the list.
compute_cg_WeightFirst(weigh_points, lemac_arm, mac_length) ==
    LET total_weight == TotalWeight(weigh_points)
    IN  IF ~RPos(total_weight) THEN Raised(NonPositiveMsg)
        ELSE IF weigh_points = <<>> THEN Raised(NoPointsMsg)
        ELSE
          LET total_moment == TotalMoment(weigh_points)
              cg_arm == RDiv(total_moment, total_weight)
              mac_percent ==
                  IF lemac_arm # None /\ mac_length # None /\ RPos(mac_length)
                  THEN RMul(RDiv(RSub(cg_arm, lemac_arm), mac_length), Q(100))
                  ELSE None
          IN  Returned(CGResult(total_weight, total_moment, cg_arm, mac_percent))

\* Mutant: a negative weight of a single point is rejected too.
compute_cg_RejectNegative(weigh_points, lemac_arm, mac_length) ==
    IF weigh_points = <<>> THEN Raised(NoPointsMsg)
    ELSE
      LET total_weight == TotalWeight(weigh_points)
      IN  IF \/ ~RPos(total_weight)
             \/ \E i \in 1..Len(weigh_points) : weigh_points[i].weight[1] < 0
          THEN Raised(NonPositiveMsg)
          ELSE
            LET total_moment == TotalMoment(weigh_points)
                cg_arm == RDiv(total_moment, total_weight)
                mac_percent ==
                    IF lemac_arm # None /\ mac_length # None /\ RPos(mac_length)
                    THEN RMul(RDiv(RSub(cg_arm, lemac_arm), mac_length), Q(100))
                    ELSE None
            IN  Returned(CGResult(total_weight, total_moment, cg_arm, mac_percent))

\* Mutant: only a zero mac_length suppresses the percent-MAC.
compute_cg_MacNonZero(weigh_points, lemac_arm, mac_length) ==
    IF weigh_points = <<>> THEN Raised(NoPointsMsg)
    ELSE
      LET total_weight == TotalWeight(weigh_points)
      IN  IF ~RPos(total_weight) THEN Raised(NonPositiveMsg)
          ELSE
            LET total_moment == TotalMoment(weigh_points)
                cg_arm == RDiv(total_moment, total_weight)
                mac_percent ==
                    IF lemac_arm # None /\ mac_length # None /\ mac_length[1] # 0
                    THEN RMul(RDiv(RSub(cg_arm, lemac_arm), mac_length), Q(100))
                    ELSE None
            IN  Returned(CGResult(total_weight, total_moment, cg_arm, mac_percent))

\* Mutant: percent-MAC measured from the CG back to LEMAC (sign flipped).
compute_cg_MacSignFlipped(weigh_points, lemac_arm, mac_length) ==
    IF weigh_points = <<>> THEN Raised(NoPointsMsg)
    ELSE
      LET total_weight == TotalWeight(weigh_points)
      IN  IF ~RPos(total_weight) THEN Raised(NonPositiveMsg)
          ELSE
            LET total_moment == TotalMoment(weigh_points)
                cg_arm == RDiv(total_moment, total_weight)
                mac_percent ==
                    IF lemac_arm # None /\ mac_length # None /\ RPos(mac_length)
                    THEN RMul(RDiv(RSub(lemac_arm, cg_arm), mac_length), Q(100))
                    ELSE None
            IN  Returned(CGResult(total_weight, total_moment, cg_arm, mac_percent))

compute_cg(weigh_points, lemac_arm, mac_length) ==
    IF weigh_points = <<>> THEN Raised(NoPointsMsg)
    ELSE
      LET total_weight == TotalWeight(weigh_points)
      IN  IF ~RPos(total_weight) THEN Raised(NonPositiveMsg)
          ELSE
            LET total_moment == TotalMoment(weigh_points)
                cg_arm == RDiv(total_moment, total_weight)
                mac_percent ==
                    IF lemac_arm # None /\ mac_length # None /\ RPos(mac_length)
                    THEN RMul(RDiv(RSub(cg_arm, lemac_arm), mac_length), Q(100))
                    ELSE None
            IN  Returned(CGResult(total_weight, total_moment, cg_arm, mac_percent))

\* ------------------------------------------------------------- presets ----

Boeing787 == "Boeing 787"
Boeing737 == "Boeing 737"

AircraftModels == {Boeing787, Boeing737}

\* AIRCRAFT_PRESETS, with the default gear weights of the weight inputs.
AIRCRAFT_PRESETS(m) ==
    IF m = Boeing787
    THEN [type |-> "dual_bogie",
          arms |-> <<Q(268), Rat(113730, 100), Rat(119480, 100),
                     Rat(113730, 100), Rat(119480, 100)>>,
          weights |-> <<Q(30000), Q(60000), Q(60000), Q(60000), Q(60000)>>,
          lemac |-> Q(830), mac_length |-> Q(240)]
    ELSE [type |-> "simple",
          arms |-> <<Q(93), Rat(706822, 1000), Rat(706822, 1000)>>,
          weights |-> <<Q(15000), Q(40000), Q(40000)>>,
          lemac |-> Q(610), mac_length |-> Q(130)]

\* gear_labels of the two layouts.
GearLabels(type) ==
    IF type = "dual_bogie"
    THEN <<"NLG", "LMLG FWD", "LMLG AFT", "RMLG FWD", "RMLG AFT">>
    ELSE <<"NLG", "LMLG", "RMLG">>

\* ------------------------------------------------ Calculate block ----

AdjustmentItem(description, weight, arm) ==
    [description |-> description, weight |-> weight, arm |-> arm]

\* Mutant: the last item of the list is left out of the sum.
SumItemWeightsButLast(items) ==
    PySum([i \in 1..Len(items) |->
             IF i < Len(items) THEN items[i].weight ELSE Zero])

\* sum(item["weight"] for item in items)
SumItemWeights(items) ==
    PySum([i \in 1..Len(items) |-> items[i].weight])

\* sum(item["weight"] * item["arm"] for item in items)
SumItemMoments(items) ==
    PySum([i \in 1..Len(items) |-> RMul(items[i].weight, items[i].arm)])

\* Mutant: a point enters the list only with a scale serial.
BuildPointsWithSerial(f) ==
    LET labels == GearLabels(AIRCRAFT_PRESETS(f.aircraft_model).type)
    IN  SelectSeq([i \in 1..Len(labels) |->
                     WeighPoint(labels[i], f.gear_w[i], f.gear_arms[i],
                                f.gear_serials[i])],
                  LAMBDA p : p.serial # "")

\* points = [WeighPoint(label, weight, arm, serial), ...] of the layout.
BuildPoints(f) ==
    LET labels == GearLabels(AIRCRAFT_PRESETS(f.aircraft_model).type)
    IN  [i \in 1..Len(labels) |->
           WeighPoint(labels[i], f.gear_w[i], f.gear_arms[i],
                      f.gear_serials[i])]

\* The locals of the Calculate block after the adjustment resolver and the
\* two percent-MAC derivations.
Locals(result, cw, cm, ccg, amac, cmac) ==
    [result |-> result, corrected_weight |-> cw, corrected_moment |-> cm,
     corrected_cg |-> ccg, as_mac_percent |-> amac,
     corrected_mac_percent |-> cmac]

NoLocals == Locals(NoResult, None, None, None, None, None)

\* Mutant: the pitch correction is added to the weight, not multiplied.
PitchCorrectedMomentAdded(as_m, pitch_correction, as_w) ==
    RAdd(as_m, RAdd(pitch_correction, as_w))

\* Mutant: the correction is scaled by the moment, not by the weight.
PitchCorrectedMomentByMoment(as_m, pitch_correction, as_w) ==
    RAdd(as_m, RMul(pitch_correction, as_m))

\* pitch_corrected_m = as_m + pitch_correction * as_w
PitchCorrectedMoment(as_m, pitch_correction, as_w) ==
    RAdd(as_m, RMul(pitch_correction, as_w))

\* Mutant: the additions are taken off as well.
CorrectedWeightMinusAdditions(as_w, sum_sub_w, sum_add_w) ==
    RSub(RSub(as_w, sum_sub_w), sum_add_w)

\* corrected_weight = as_w - sum_sub_w + sum_add_w
CorrectedWeight(as_w, sum_sub_w, sum_add_w) ==
    RAdd(RSub(as_w, sum_sub_w), sum_add_w)

\* corrected_moment = pitch_corrected_m - sum_sub_m + sum_add_m
CorrectedMoment(pitch_corrected_m, sum_sub_m, sum_add_m) ==
    RAdd(RSub(pitch_corrected_m, sum_sub_m), sum_add_m)

\* Mutant: the guard is corrected_weight >= 0.
CorrectedCgFromZero(corrected_moment, corrected_weight, as_cg) ==
    IF corrected_weight[1] >= 0
    THEN RDiv(corrected_moment, corrected_weight)
    ELSE as_cg

\* corrected_cg = corrected_moment / corrected_weight
\*                if corrected_weight > 0 else as_cg
CorrectedCg(corrected_moment, corrected_weight, as_cg) ==
    IF RPos(corrected_weight)
    THEN RDiv(corrected_moment, corrected_weight)
    ELSE as_cg

\* Mutant: the mac_length > 0 test is left out.
AsMacPercentUnguarded(as_cg, lemac_arm, mac_length) ==
    IF lemac_arm # None /\ mac_length # None
    THEN RMul(RDiv(RSub(as_cg, lemac_arm), mac_length), Q(100))
    ELSE None

\* as_mac_percent of the Calculate block.
AsMacPercent(as_cg, lemac_arm, mac_length) ==
    IF lemac_arm # None /\ mac_length # None /\ RPos(mac_length)
    THEN RMul(RDiv(RSub(as_cg, lemac_arm), mac_length), Q(100))
    ELSE None

\* Mutant: the corrected_weight > 0 test is left out.
CorrectedMacPercentAnyWeight(corrected_cg, lemac_arm, mac_length, corrected_weight) ==
    IF lemac_arm # None /\ mac_length # None /\ RPos(mac_length)
    THEN RMul(RDiv(RSub(corrected_cg, lemac_arm), mac_length), Q(100))
    ELSE None

\* corrected_mac_percent of the Calculate block.
CorrectedMacPercent(corrected_cg, lemac_arm, mac_length, corrected_weight) ==
    IF /\ lemac_arm # None /\ mac_length # None /\ RPos(mac_length)
       /\ RPos(corrected_weight)
    THEN RMul(RDiv(RSub(corrected_cg, lemac_arm), mac_length), Q(100))
    ELSE None

\* Mutant: the corrected values are written into the as-weighed result.
AdjustmentResolverInPlace(result, pitch_correction, subtractions, additions, lemac_arm, mac_length) ==
    LET as_w == result.total_weight
        as_m == result.total_moment
        as_cg == result.cg_arm
        sum_sub_w == SumItemWeights(subtractions)
        sum_sub_m == SumItemMoments(subtractions)
        sum_add_w == SumItemWeights(additions)
        sum_add_m == SumItemMoments(additions)
        pitch_corrected_m == PitchCorrectedMoment(as_m, pitch_correction, as_w)
        corrected_weight == CorrectedWeight(as_w, sum_sub_w, sum_add_w)
        corrected_moment ==
            CorrectedMoment(pitch_corrected_m, sum_sub_m, sum_add_m)
        corrected_cg == CorrectedCg(corrected_moment, corrected_weight, as_cg)
        as_mac_percent == AsMacPercent(as_cg, lemac_arm, mac_length)
        corrected_mac_percent ==
            CorrectedMacPercent(corrected_cg, lemac_arm, mac_length,
                                corrected_weight)
        fault == [raised |-> TRUE, msg |-> DivisionMsg, value |-> NoLocals]
    IN  IF corrected_cg = ZeroDivisionError THEN fault
        ELSE IF as_mac_percent = ZeroDivisionError THEN fault
        ELSE IF corrected_mac_percent = ZeroDivisionError THEN fault
        ELSE [raised |-> FALSE, msg |-> "",
              value |-> Locals(CGResult(corrected_weight, corrected_moment,
                                        corrected_cg, corrected_mac_percent),
                               corrected_weight, corrected_moment,
                               corrected_cg, as_mac_percent,
                               corrected_mac_percent)]

\* The adjustment resolver and the percent-MAC derivations of the Calculate
\* block, from the as-weighed result on.  A division by zero raises.
AdjustmentResolver(result, pitch_correction, subtractions, additions, lemac_arm, mac_length) ==
    LET as_w == result.total_weight
        as_m == result.total_moment
        as_cg == result.cg_arm
        sum_sub_w == SumItemWeights(subtractions)
        sum_sub_m == SumItemMoments(subtractions)
        sum_add_w == SumItemWeights(additions)
        sum_add_m == SumItemMoments(additions)
        pitch_corrected_m == PitchCorrectedMoment(as_m, pitch_correction, as_w)
        corrected_weight == CorrectedWeight(as_w, sum_sub_w, sum_add_w)
        corrected_moment ==
            CorrectedMoment(pitch_corrected_m, sum_sub_m, sum_add_m)
        corrected_cg == CorrectedCg(corrected_moment, corrected_weight, as_cg)
        as_mac_percent == AsMacPercent(as_cg, lemac_arm, mac_length)
        corrected_mac_percent ==
            CorrectedMacPercent(corrected_cg, lemac_arm, mac_length,
                                corrected_weight)
        fault == [raised |-> TRUE, msg |-> DivisionMsg, value |-> NoLocals]
    IN  IF corrected_cg = ZeroDivisionError THEN fault
        ELSE IF as_mac_percent = ZeroDivisionError THEN fault
        ELSE IF corrected_mac_percent = ZeroDivisionError THEN fault
        ELSE [raised |-> FALSE, msg |-> "",
              value |-> Locals(result, corrected_weight, corrected_moment,
                               corrected_cg, as_mac_percent,
                               corrected_mac_percent)]

\* f"{x:.2f}": x to two decimals (halves rounded up).
Format2f(x) == Rat((200 * x[1] + x[2]) \div (2 * x[2]), 100)

\* What build_pdf_report writes: the pitch attitude of the details (None for
\* "-"), the two "As-weighed ..." and the three "Final ..." lines of the
\* summary (None for a line that is not drawn) and the Scale S/N column of
\* the gear table.
PdfSummary(pitch_str, as_w, as_cg, fw, fcg, fmac, serials) ==
    [pitch_str |-> pitch_str, as_weight |-> as_w, as_cg |-> as_cg,
     final_weight |-> fw, final_cg |-> fcg, final_mac |-> fmac,
     serials |-> serials]

NoPdf == PdfSummary(None, None, None, None, None, None, <<>>)

\* Mutant: the copy of the resolver leaves the pitch correction out.
build_pdf_report_NoPitch(result, points, pitch_attitude_deg, pitch_correction, subtractions, additions, final_mac_percent) ==
    LET pitch_str ==
            IF pitch_attitude_deg # Zero THEN Format2f(pitch_attitude_deg)
            ELSE None
        as_w == result.total_weight
        as_m == result.total_moment
        as_cg == result.cg_arm
        sum_sub_w == SumItemWeights(subtractions)
        sum_sub_m == SumItemMoments(subtractions)
        sum_add_w == SumItemWeights(additions)
        sum_add_m == SumItemMoments(additions)
        pitch_corrected_m == as_m
        corrected_weight == RAdd(RSub(as_w, sum_sub_w), sum_add_w)
        corrected_moment == RAdd(RSub(pitch_corrected_m, sum_sub_m), sum_add_m)
        corrected_cg ==
            IF RPos(corrected_weight)
            THEN RDiv(corrected_moment, corrected_weight)
            ELSE as_cg
        corrected_mac_percent == final_mac_percent
        serials ==
            [i \in 1..Len(points) |->
               IF points[i].serial # "" THEN points[i].serial ELSE "-"]
    IN  IF corrected_cg = ZeroDivisionError
        THEN [raised |-> TRUE, msg |-> DivisionMsg, value |-> NoPdf]
        ELSE [raised |-> FALSE, msg |-> "",
              value |-> PdfSummary(pitch_str, as_w, as_cg, corrected_weight,
                                   corrected_cg, corrected_mac_percent,
                                   serials)]

\* build_pdf_report: the pitch attitude it prints, the adjustment resolver
\* it repeats for the summary, the three "Final ..." lines and the gear table.
build_pdf_report(result, points, pitch_attitude_deg, pitch_correction, subtractions, additions, final_mac_percent) ==
    LET pitch_str ==
            IF pitch_attitude_deg # Zero THEN Format2f(pitch_attitude_deg)
            ELSE None
        as_w == result.total_weight
        as_m == result.total_moment
        as_cg == result.cg_arm
        sum_sub_w == SumItemWeights(subtractions)
        sum_sub_m == SumItemMoments(subtractions)
        sum_add_w == SumItemWeights(additions)
        sum_add_m == SumItemMoments(additions)
        pitch_corrected_m == RAdd(as_m, RMul(pitch_correction, as_w))
        corrected_weight == RAdd(RSub(as_w, sum_sub_w), sum_add_w)
        corrected_moment == RAdd(RSub(pitch_corrected_m, sum_sub_m), sum_add_m)
        corrected_cg ==
            IF RPos(corrected_weight)
            THEN RDiv(corrected_moment, corrected_weight)
            ELSE as_cg
        corrected_mac_percent == final_mac_percent
        serials ==
            [i \in 1..Len(points) |->
               IF points[i].serial # "" THEN points[i].serial ELSE "-"]
    IN  IF corrected_cg = ZeroDivisionError
        THEN [raised |-> TRUE, msg |-> DivisionMsg, value |-> NoPdf]
        ELSE [raised |-> FALSE, msg |-> "",
              value |-> PdfSummary(pitch_str, as_w, as_cg, corrected_weight,
                                   corrected_cg, corrected_mac_percent,
                                   serials)]

\* -------------------------------------------------------- the figures ----

\* draw_aircraft_diagram: it raises without gear arms, and otherwise returns
\* the side view with the CG marker at cg_arm (normalise never divides by a
\* zero span).
draw_aircraft_diagram(gear_arms, gear_labels, cg_arm, lemac_arm, mac_length) ==
    IF gear_arms = <<>>
    THEN [raised |-> TRUE, msg |-> "No gear arms provided for diagram.",
          value |-> None]
    ELSE [raised |-> FALSE, msg |-> "", value |-> cg_arm]

\* The envelope figure: whether it was drawn and which points it carries.
EnvelopeFig(drawn, as_point, corrected_point) ==
    [drawn |-> drawn, as_point |-> as_point,
     corrected_point |-> corrected_point]

NoEnvelope == EnvelopeFig(FALSE, FALSE, FALSE)

\* Mutant: the corrected point is plotted without any test.
draw_cg_envelope_plot_CorrectedAlways(min_weight, max_weight, fwd_limit, aft_limit, as_w, as_mac, corrected_w, corrected_mac) ==
    IF \/ ~RPos(min_weight)
       \/ ~RPos(RSub(max_weight, min_weight))
       \/ ~RPos(RSub(aft_limit, fwd_limit))
    THEN [raised |-> TRUE, msg |-> "Invalid CG envelope limits.",
          value |-> NoEnvelope]
    ELSE [raised |-> FALSE, msg |-> "",
          value |-> EnvelopeFig(TRUE, as_mac # None /\ RPos(as_w), TRUE)]

\* draw_cg_envelope_plot: its own validation of the limits, then the
\* rectangle and the two optional points.
draw_cg_envelope_plot(min_weight, max_weight, fwd_limit, aft_limit, as_w, as_mac, corrected_w, corrected_mac) ==
    IF \/ ~RPos(min_weight)
       \/ ~RPos(RSub(max_weight, min_weight))
       \/ ~RPos(RSub(aft_limit, fwd_limit))
    THEN [raised |-> TRUE, msg |-> "Invalid CG envelope limits.",
          value |-> NoEnvelope]
    ELSE [raised |-> FALSE, msg |-> "",
          value |-> EnvelopeFig(TRUE,
                                as_mac # None /\ RPos(as_w),
                                corrected_mac # None /\ RPos(corrected_w))]

\* Mutant: limits with aft = fwd pass the condition.
EnvelopeGateAftNotBelow(env_min_weight, env_max_weight, env_fwd_limit, env_aft_limit, as_mac_percent, corrected_mac_percent) ==
    /\ RPos(env_min_weight)
    /\ RPos(RSub(env_max_weight, env_min_weight))
    /\ RSub(env_aft_limit, env_fwd_limit)[1] >= 0
    /\ (as_mac_percent # None \/ corrected_mac_percent # None)

\* The condition under which the Calculate block draws the envelope plot.
EnvelopeGate(env_min_weight, env_max_weight, env_fwd_limit, env_aft_limit, as_mac_percent, corrected_mac_percent) ==
    /\ RPos(env_min_weight)
    /\ RPos(RSub(env_max_weight, env_min_weight))
    /\ RPos(RSub(env_aft_limit, env_fwd_limit))
    /\ (as_mac_percent # None \/ corrected_mac_percent # None)

\* The figures a script run shows: the CG arm marked on the side view (None
\* without a diagram) and the envelope figure.
Figs(diagram, envelope) == [diagram |-> diagram, envelope |-> envelope]

NoFigs == Figs(None, NoEnvelope)

\* --------------------------------------------------------- the bounds ----

\* Longest point sequence handed to compute_cg when it is called on its own.
MaxPoints == 3

\* Longest subtraction and addition list entered in the form.
MaxItems == 1

\* Longest subtraction and addition list handed to the adjustment resolver
\* when it is run on its own.
MaxAdjItems == 2

\* Sequences over S of length at most n.
SeqsUpTo(S, n) == UNION {[1..k -> S] : k \in 0..n}

\* Points compute_cg is called with on its own: the weights of either sign
\* that the function accepts, arms on both sides of the datum.
CgPoints ==
    {WeighPoint("P", Q(w), Q(a), "") : w \in {-1, 0, 1, 2}, a \in {-1, 3}}

\* Scenario A of the specification: the Boeing 737 preset.
ScenarioPoints ==
    [i \in 1..3 |->
       WeighPoint(GearLabels("simple")[i],
                  AIRCRAFT_PRESETS(Boeing737).weights[i],
                  AIRCRAFT_PRESETS(Boeing737).arms[i], "")]

CgPointSeqs == SeqsUpTo(CgPoints, MaxPoints) \cup {ScenarioPoints}

CgLemacArms == {None, Q(0), Q(2), Q(610)}

CgMacLengths == {None, Q(-1), Q(0), Q(2), Q(130)}

\* Inputs of the adjustment resolver when it is run on its own: as-weighed
\* results of compute_cg, and lists of up to MaxAdjItems items of three kinds.
AdjResults ==
    {compute_cg(<<p>>, None, None).value : p \in {q \in CgPoints : RPos(q.weight)}}

AdjItems ==
    {AdjustmentItem("", Q(1), Q(2)), AdjustmentItem("", Q(3), Q(-1)),
     AdjustmentItem("", Q(2), Q(5))}

AdjItemLists == SeqsUpTo(AdjItems, MaxAdjItems)

AdjMacLengths == {Q(0), Q(2)}

\* Values typed into the form.  Gear weights and item weights have
\* min_value=0.0; arms, LEMAC, MAC length and pitch correction are free.
GearWeightVectors(m) ==
    IF m = Boeing787
    THEN {AIRCRAFT_PRESETS(m).weights,
          <<Q(0), Q(0), Q(0), Q(0), Q(0)>>,
          <<Q(1), Q(2), Q(2), Q(2), Q(2)>>,
          <<Q(0), Q(1), Q(0), Q(1), Q(0)>>}
    ELSE [1..3 -> {Q(0), Q(1)}]
             \cup {AIRCRAFT_PRESETS(m).weights, <<Q(1), Q(2), Q(2)>>}

GearArmVectors(m) ==
    IF m = Boeing787
    THEN {AIRCRAFT_PRESETS(m).arms, <<Q(1), Q(4), Q(5), Q(4), Q(6)>>}
    ELSE {AIRCRAFT_PRESETS(m).arms, <<Q(-1), Q(3), Q(5)>>}

LemacArms(m) == {Q(1), AIRCRAFT_PRESETS(m).lemac}

MacLengths(m) == {Q(-1), Q(0), AIRCRAFT_PRESETS(m).mac_length}

PitchCorrections == {Q(0), Q(1), Rat(-1, 2)}

SmallItems == {AdjustmentItem("", Q(1), Q(2)), AdjustmentItem("", Q(3), Q(-1))}

SmallItemLists == SeqsUpTo(SmallItems, MaxItems)

\* Scenario C of the specification: 500 @ 400 removed, 1000 @ 900 added.
SubtractionLists ==
    SmallItemLists \cup {<<AdjustmentItem("", Q(500), Q(400))>>}

AdditionLists ==
    SmallItemLists \cup {<<AdjustmentItem("", Q(1000), Q(900))>>}

\* The lists combined with serial numbers, a pitch attitude or envelope limits.
AnnotatedSubtractions ==
    {<<>>, <<AdjustmentItem("", Q(3), Q(-1))>>,
     <<AdjustmentItem("", Q(500), Q(400))>>}

BlankSerials(m) ==
    [i \in 1..Len(GearLabels(AIRCRAFT_PRESETS(m).type)) |-> ""]

GearSerialVectors(m) ==
    {BlankSerials(m),
     [i \in 1..Len(GearLabels(AIRCRAFT_PRESETS(m).type)) |-> "SN-4711"]}

PitchAttitudes == {Q(0), Rat(3, 2)}

EnvelopeLimits(min_weight, max_weight, fwd_limit, aft_limit) ==
    [env_min_weight |-> min_weight, env_max_weight |-> max_weight,
     env_fwd_limit |-> fwd_limit, env_aft_limit |-> aft_limit]

\* The defaults, valid limits, a zero minimum weight under otherwise ordered
\* limits, and limits out of order.
EnvelopeLimitChoices ==
    {EnvelopeLimits(Q(0), Q(0), Q(0), Q(0)),
     EnvelopeLimits(Q(1), Q(5), Q(10), Q(30)),
     EnvelopeLimits(Q(0), Q(5), Q(10), Q(30)),
     EnvelopeLimits(Q(5), Q(5), Q(10), Q(30)),
     EnvelopeLimits(Q(1), Q(5), Q(30), Q(10)),
     EnvelopeLimits(Q(1), Q(5), Q(-2), Q(-2))}

\* ---------------------------------------------------------- the state ----

VARIABLES
    form,       \* the values of the input widgets
    view,       \* what the script run shows: "info", "results" or "error"
    error,      \* the message of st.error, "" when there is none
    calc,       \* the locals of the Calculate block that are displayed
    pdf,        \* the summary build_pdf_report wrote
    figs,       \* the figures shown
    cg_call,    \* arguments of a direct call of compute_cg
    cg_pc,      \* "call" before that call, "done" after it
    cg_out,     \* its outcome
    adj_call,   \* inputs of a run of the adjustment resolver on its own
    adj_pc,     \* "call" before that run, "done" after it
    adj_out     \* its outcome

vars ==
    <<form, view, error, calc, pdf, figs, cg_call, cg_pc, cg_out,
      adj_call, adj_pc, adj_out>>

appVars == <<form, view, error, calc, pdf, figs>>

cgVars == <<cg_call, cg_pc, cg_out>>

adjVars == <<adj_call, adj_pc, adj_out>>

callVars == <<cgVars, adjVars>>

\* The form as the first script run builds it: index=0 of the aircraft
\* selectbox, every widget at its default.
DefaultForm(m) ==
    [aircraft_model |-> m,
     gear_w |-> AIRCRAFT_PRESETS(m).weights,
     gear_arms |-> AIRCRAFT_PRESETS(m).arms,
     lemac_arm |-> AIRCRAFT_PRESETS(m).lemac,
     mac_length |-> AIRCRAFT_PRESETS(m).mac_length,
     gear_serials |-> BlankSerials(m),
     env_min_weight |-> Q(0),
     env_max_weight |-> Q(0),
     env_fwd_limit |-> Q(0),
     env_aft_limit |-> Q(0),
     pitch_attitude_deg |-> Q(0),
     pitch_correction |-> Q(0),
     subtractions |-> <<>>,
     additions |-> <<>>]

AppInit ==
    /\ form = DefaultForm(Boeing787)
    /\ view = "info"
    /\ error = ""
    /\ calc = NoLocals
    /\ pdf = NoPdf
    /\ figs = NoFigs

CgIdle ==
    /\ cg_call = [weigh_points |-> <<>>, lemac_arm |-> None, mac_length |-> None]
    /\ cg_pc = "call"
    /\ cg_out = Raised("")

AdjIdle ==
    /\ adj_call = [result |-> NoResult, pitch_correction |-> Q(0),
                   subtractions |-> <<>>, additions |-> <<>>,
                   lemac_arm |-> None, mac_length |-> None]
    /\ adj_pc = "call"
    /\ adj_out = [raised |-> FALSE, msg |-> "", value |-> NoLocals]

Init == AppInit /\ CgIdle /\ AdjIdle

\* The forms that are explored.  The preset gear weights (tens of thousands)
\* are combined with the empty and the scenario adjustment lists only: with
\* the small items the numerators of the quotients exceed 32-bit integers.
\* Serial numbers, a pitch attitude and envelope limits are entered next to
\* the preset arms and LEMAC, no additions and a few subtraction lists.
Annotated(f) ==
    \/ f.gear_serials # BlankSerials(f.aircraft_model)
    \/ f.pitch_attitude_deg # Q(0)
    \/ EnvelopeLimits(f.env_min_weight, f.env_max_weight, f.env_fwd_limit,
                      f.env_aft_limit) # EnvelopeLimits(Q(0), Q(0), Q(0), Q(0))

Explored(f) ==
    /\ f.gear_w = AIRCRAFT_PRESETS(f.aircraft_model).weights
          => /\ f.subtractions \notin SmallItemLists \ {<<>>}
             /\ f.additions \notin SmallItemLists \ {<<>>}
    /\ Annotated(f)
          => /\ f.gear_arms = AIRCRAFT_PRESETS(f.aircraft_model).arms
             /\ f.lemac_arm = AIRCRAFT_PRESETS(f.aircraft_model).lemac
             /\ f.subtractions \in AnnotatedSubtractions
             /\ f.additions = <<>>
             /\ f.pitch_correction \in {Q(0), Q(1)}

\* Mutant: the rerun leaves the last outcome on the page.
RerunKeepingOutcome(f) ==
    /\ Explored(f)
    /\ form' = f
    /\ UNCHANGED <<view, error, calc, pdf, figs, callVars>>

\* A widget is changed: the script reruns with calculate = False and shows
\* only the hint of the else branch.
Rerun(f) ==
    /\ Explored(f)
    /\ form' = f
    /\ view' = "info"
    /\ error' = ""
    /\ calc' = NoLocals
    /\ pdf' = NoPdf
    /\ figs' = NoFigs
    /\ UNCHANGED callVars

SelectAircraft ==
    \E m \in AircraftModels \ {form.aircraft_model} :
        Rerun([DefaultForm(m) EXCEPT
                 !.gear_serials[1] = form.gear_serials[1],
                 !.env_min_weight = form.env_min_weight,
                 !.env_max_weight = form.env_max_weight,
                 !.env_fwd_limit = form.env_fwd_limit,
                 !.env_aft_limit = form.env_aft_limit,
                 !.pitch_attitude_deg = form.pitch_attitude_deg,
                 !.pitch_correction = form.pitch_correction,
                 !.subtractions = form.subtractions,
                 !.additions = form.additions])

EditGearWeights ==
    \E w \in GearWeightVectors(form.aircraft_model) \ {form.gear_w} :
        Rerun([form EXCEPT !.gear_w = w])

EditGearArms ==
    \E a \in GearArmVectors(form.aircraft_model) \ {form.gear_arms} :
        Rerun([form EXCEPT !.gear_arms = a])

EditGearSerials ==
    \E v \in GearSerialVectors(form.aircraft_model) \ {form.gear_serials} :
        Rerun([form EXCEPT !.gear_serials = v])

EditLemacArm ==
    \E v \in LemacArms(form.aircraft_model) \ {form.lemac_arm} :
        Rerun([form EXCEPT !.lemac_arm = v])

EditMacLength ==
    \E v \in MacLengths(form.aircraft_model) \ {form.mac_length} :
        Rerun([form EXCEPT !.mac_length = v])

EditEnvelopeLimits ==
    \E l \in EnvelopeLimitChoices :
        /\ l # EnvelopeLimits(form.env_min_weight, form.env_max_weight,
                              form.env_fwd_limit, form.env_aft_limit)
        /\ Rerun([form EXCEPT !.env_min_weight = l.env_min_weight,
                              !.env_max_weight = l.env_max_weight,
                              !.env_fwd_limit = l.env_fwd_limit,
                              !.env_aft_limit = l.env_aft_limit])

EditPitchAttitude ==
    \E v \in PitchAttitudes \ {form.pitch_attitude_deg} :
        Rerun([form EXCEPT !.pitch_attitude_deg = v])

EditPitchCorrection ==
    \E v \in PitchCorrections \ {form.pitch_correction} :
        Rerun([form EXCEPT !.pitch_correction = v])

EditSubtractions ==
    \E l \in SubtractionLists \ {form.subtractions} :
        Rerun([form EXCEPT !.subtractions = l])

EditAdditions ==
    \E l \in AdditionLists \ {form.additions} :
        Rerun([form EXCEPT !.additions = l])

\* The envelope plot of the Calculate block: drawn under the condition on
\* the limits and the percent-MAC values, and otherwise replaced by a hint.
\* as_w is the total weight of the as-weighed result.
EnvelopePlot(f, locals) ==
    IF EnvelopeGate(f.env_min_weight, f.env_max_weight, f.env_fwd_limit,
                    f.env_aft_limit, locals.as_mac_percent,
                    locals.corrected_mac_percent)
    THEN draw_cg_envelope_plot(f.env_min_weight, f.env_max_weight,
                               f.env_fwd_limit, f.env_aft_limit,
                               locals.result.total_weight,
                               locals.as_mac_percent,
                               locals.corrected_weight,
                               locals.corrected_mac_percent)
    ELSE [raised |-> FALSE, msg |-> "", value |-> NoEnvelope]

\* What a run of the try block has put on the page when it ends.
Shows(raised, msg, locals, summary, figures) ==
    [raised |-> raised, msg |-> msg, calc |-> locals, pdf |-> summary,
     figs |-> figures]

\* The body of the try block, in its order: compute_cg, the adjustment
\* resolver and the percent-MAC derivations, the side view, the envelope
\* plot, the result metrics, build_pdf_report.  An exception ends it and
\* leaves on the page what was shown before.
CalculateBlock(f) ==
    LET points == BuildPoints(f)
        gear_arms == f.gear_arms
        gear_labels == GearLabels(AIRCRAFT_PRESETS(f.aircraft_model).type)
        r == compute_cg(points, f.lemac_arm, f.mac_length)
        a == AdjustmentResolver(r.value, f.pitch_correction, f.subtractions,
                                f.additions, f.lemac_arm, f.mac_length)
        d == draw_aircraft_diagram(gear_arms, gear_labels,
                                   a.value.corrected_cg, f.lemac_arm,
                                   f.mac_length)
        e == EnvelopePlot(f, a.value)
        p == build_pdf_report(a.value.result, points, f.pitch_attitude_deg,
                              f.pitch_correction, f.subtractions, f.additions,
                              a.value.corrected_mac_percent)
    IN  IF r.raised THEN Shows(TRUE, r.msg, NoLocals, NoPdf, NoFigs)
        ELSE IF a.raised THEN Shows(TRUE, a.msg, NoLocals, NoPdf, NoFigs)
        ELSE IF d.raised THEN Shows(TRUE, d.msg, NoLocals, NoPdf, NoFigs)
        ELSE IF e.raised
             THEN Shows(TRUE, e.msg, NoLocals, NoPdf, Figs(d.value, NoEnvelope))
        ELSE IF p.raised
             THEN Shows(TRUE, p.msg, a.value, NoPdf, Figs(d.value, e.value))
        ELSE Shows(FALSE, "", a.value, p.value, Figs(d.value, e.value))

\* Mutant: after an exception the block is run again on the preset values.
CalculateRetryingPreset ==
    LET o == CalculateBlock(form)
        again == CalculateBlock(DefaultForm(form.aircraft_model))
    IN  /\ view' = IF o.raised THEN "error" ELSE "results"
        /\ error' = IF o.raised THEN "Error during calculation: " \o o.msg ELSE ""
        /\ calc' = IF o.raised THEN again.calc ELSE o.calc
        /\ pdf' = IF o.raised THEN again.pdf ELSE o.pdf
        /\ figs' = IF o.raised THEN again.figs ELSE o.figs
        /\ UNCHANGED <<form, callVars>>

\* The Calculate CG button: the try block, and st.error in its except branch.
Calculate ==
    \E o \in {CalculateBlock(form)} :
        /\ view' = IF o.raised THEN "error" ELSE "results"
        /\ error' = IF o.raised THEN "Error during calculation: " \o o.msg ELSE ""
        /\ calc' = o.calc
        /\ pdf' = o.pdf
        /\ figs' = o.figs
        /\ UNCHANGED <<form, callVars>>

Next ==
    \/ SelectAircraft
    \/ EditGearWeights
    \/ EditGearArms
    \/ EditLemacArm
    \/ EditMacLength
    \/ EditPitchCorrection
    \/ EditSubtractions
    \/ EditAdditions
    \/ Calculate

\* The runs in which the weighing inputs and the adjustments are edited.
Spec == Init /\ [][Next]_vars

\* The runs in which the optional inputs are edited as well: the scale
\* serials, the envelope limits and the pitch attitude, next to the gear
\* weights, the MAC length, the pitch correction and the subtractions.
NextOptional ==
    \/ SelectAircraft
    \/ EditGearWeights
    \/ EditGearSerials
    \/ EditMacLength
    \/ EditEnvelopeLimits
    \/ EditPitchAttitude
    \/ EditPitchCorrection
    \/ EditSubtractions
    \/ Calculate

SpecOptional == Init /\ [][NextOptional]_vars

\* ------------------------------------------- compute_cg called on its own ----

InitCg ==
    /\ AppInit
    /\ cg_call \in [weigh_points : CgPointSeqs, lemac_arm : CgLemacArms,
                    mac_length : CgMacLengths]
    /\ cg_pc = "call"
    /\ cg_out = Raised("")
    /\ AdjIdle

CallComputeCg ==
    /\ cg_pc = "call"
    /\ cg_out' = compute_cg(cg_call.weigh_points, cg_call.lemac_arm,
                            cg_call.mac_length)
    /\ cg_pc' = "done"
    /\ UNCHANGED <<cg_call, appVars, adjVars>>

NextCg == CallComputeCg

SpecCg == InitCg /\ [][NextCg]_vars

\* ------------------------------- the adjustment resolver run on its own ----

InitAdj ==
    /\ AppInit
    /\ CgIdle
    /\ adj_call \in [result : AdjResults, pitch_correction : PitchCorrections,
                     subtractions : AdjItemLists, additions : AdjItemLists,
                     lemac_arm : {Q(2)}, mac_length : AdjMacLengths]
    /\ adj_pc = "call"
    /\ adj_out = [raised |-> FALSE, msg |-> "", value |-> NoLocals]

RunAdjustmentResolver ==
    /\ adj_pc = "call"
    /\ adj_out' = AdjustmentResolver(adj_call.result, adj_call.pitch_correction,
                                     adj_call.subtractions, adj_call.additions,
                                     adj_call.lemac_arm, adj_call.mac_length)
    /\ adj_pc' = "done"
    /\ UNCHANGED <<adj_call, appVars, cgVars>>

NextAdj == RunAdjustmentResolver

SpecAdj == InitAdj /\ [][NextAdj]_vars

\* ------------------------------------------------- stating the claims ----

\* The sum of a sequence of numbers, taken from the right.
RECURSIVE SumRight(_)
SumRight(s) == IF s = <<>> THEN Zero ELSE RAdd(Head(s), SumRight(Tail(s)))

WeightsOf(s) == [i \in 1..Len(s) |-> s[i].weight]

MomentsOf(s) == [i \in 1..Len(s) |-> RMul(s[i].weight, s[i].arm)]

\* x rounded to hundredths, as an integer count of hundredths (x >= 0).
Hundredths(x) == (200 * x[1] + x[2]) \div (2 * x[2])

\* q = a / b, stated without dividing.
IsQuotient(q, a, b) == RMul(q, b) = a

\* p = (cg - lemac) / mac * 100, stated without dividing.
IsMacPercent(p, cg, lemac, mac) == RMul(p, mac) = RMul(RSub(cg, lemac), Q(100))

CgDone == cg_pc = "done"

CgReturned == cg_pc = "done" /\ ~cg_out.raised

\* The rearrangements of a sequence.
Rearrangements(s) ==
    IF s = <<>> THEN {<<>>}
    ELSE {[i \in 1..Len(s) |-> s[p[i]]] : p \in Permutations(1..Len(s))}

\* C1: for every non-empty point sequence whose weights sum to a positive
\* value compute_cg returns, with total_weight the sum of the weights,
\* total_moment the sum of weight * arm and cg_arm = total_moment /
\* total_weight; the Boeing 737 scenario gives 95000, 57,940,760 and 609.90.
C1_ComputeCgTotals ==
    CgDone =>
      LET pts == cg_call.weigh_points
          v == cg_out.value
      IN  /\ (pts # <<>> /\ RPos(SumRight(WeightsOf(pts)))) => ~cg_out.raised
          /\ ~cg_out.raised =>
               /\ v.total_weight = SumRight(WeightsOf(pts))
               /\ v.total_moment = SumRight(MomentsOf(pts))
               /\ IsQuotient(v.cg_arm, v.total_moment, v.total_weight)
          /\ pts = ScenarioPoints =>
               /\ ~cg_out.raised
               /\ v.total_weight = Q(95000)
               /\ v.total_moment = Q(57940760)
               /\ Hundredths(v.cg_arm) = 60990

C1_Witness == CgReturned /\ cg_call.weigh_points = ScenarioPoints

\* C2: compute_cg with no points raises "No weighing points provided.",
\* whatever lemac_arm and mac_length are, and never the total-weight error.
C2_EmptyRaisesNoPoints ==
    (CgDone /\ cg_call.weigh_points = <<>>) =>
        cg_out.raised /\ cg_out.msg = NoPointsMsg

C2_Witness ==
    /\ CgDone /\ cg_call.weigh_points = <<>>
    /\ cg_call.lemac_arm # None /\ cg_call.mac_length # None
    /\ cg_out.raised

\* C3: with at least one point compute_cg raises "Total weight must be
\* positive." exactly when the weights sum to <= 0, whatever the signs of the
\* single weights, and every result it returns has total_weight > 0.
C3_RaisesIffTotalNotPositive ==
    (CgDone /\ cg_call.weigh_points # <<>>) =>
        /\ cg_out.raised <=> ~RPos(SumRight(WeightsOf(cg_call.weigh_points)))
        /\ cg_out.raised => cg_out.msg = NonPositiveMsg
        /\ ~cg_out.raised => RPos(cg_out.value.total_weight)

C3_Witness ==
    /\ CgReturned
    /\ \E i \in 1..Len(cg_call.weigh_points) :
           cg_call.weigh_points[i].weight[1] < 0

\* C4: a returned mac_percent is None exactly when lemac_arm is absent or
\* mac_length is absent, zero or negative, and is (cg_arm - lemac_arm) /
\* mac_length * 100 otherwise; a non-positive mac_length never makes the call
\* fail.
C4_MacPercentSuppression ==
    CgDone =>
      LET pts == cg_call.weigh_points
          v == cg_out.value
          suppressed ==
              \/ cg_call.lemac_arm = None
              \/ cg_call.mac_length = None
              \/ ~RPos(cg_call.mac_length)
      IN  /\ (pts # <<>> /\ RPos(SumRight(WeightsOf(pts)))) => ~cg_out.raised
          /\ ~cg_out.raised =>
               /\ (v.mac_percent = None) <=> suppressed
               /\ ~suppressed =>
                    IsMacPercent(v.mac_percent, v.cg_arm, cg_call.lemac_arm,
                                 cg_call.mac_length)

C4_Witness ==
    /\ CgReturned
    /\ cg_call.lemac_arm # None
    /\ cg_call.mac_length = Q(-1)
    /\ cg_out.value.mac_percent = None

FormWeight == SumRight(form.gear_w)

FormMoment ==
    SumRight([i \in 1..Len(form.gear_w) |->
                RMul(form.gear_w[i], form.gear_arms[i])])

FormCorrectedWeight ==
    RAdd(RSub(FormWeight, SumRight(WeightsOf(form.subtractions))),
         SumRight(WeightsOf(form.additions)))

FormCorrectedMoment ==
    RAdd(RSub(RAdd(FormMoment, RMul(form.pitch_correction, FormWeight)),
              SumRight(MomentsOf(form.subtractions))),
         SumRight(MomentsOf(form.additions)))

IsNumber(x) == Len(x) = 2 /\ x[2] > 0

Shown == view = "results"

\* Scenario C of the specification on the Boeing 737 preset.
ScenarioForm ==
    [DefaultForm(Boeing737) EXCEPT
       !.subtractions = <<AdjustmentItem("", Q(500), Q(400))>>,
       !.additions = <<AdjustmentItem("", Q(1000), Q(900))>>]

\* C5: with pitch_correction 0 and no subtraction and no addition, the
\* corrected weight is the as-weighed weight and the corrected CG arm is the
\* as-weighed CG arm, exactly.
C5_NoAdjustmentIsIdentity ==
    (/\ Shown
     /\ form.pitch_correction = Zero
     /\ form.subtractions = <<>>
     /\ form.additions = <<>>) =>
        /\ calc.corrected_weight = calc.result.total_weight
        /\ calc.corrected_cg = calc.result.cg_arm

C5_Witness ==
    /\ Shown
    /\ form.pitch_correction = Zero
    /\ form.subtractions = <<>>
    /\ form.additions = <<>>

\* C6: whenever the corrected weight is <= 0, exactly 0 included, the
\* Calculate run completes without a division fault and the corrected CG arm,
\* on screen and in the report, is the as-weighed CG arm, for every pitch
\* correction and every adjustment list.
C6_FallbackToAsWeighedCg ==
    /\ (view # "info" /\ RPos(FormWeight) /\ ~RPos(FormCorrectedWeight)) =>
           /\ Shown
           /\ calc.corrected_cg = calc.result.cg_arm
           /\ pdf.final_cg = calc.result.cg_arm
    /\ (Shown /\ ~RPos(calc.corrected_weight)) =>
           calc.corrected_cg = calc.result.cg_arm
    /\ view = "error" => error # "Error during calculation: " \o DivisionMsg

C6_Witness ==
    /\ Shown
    /\ calc.corrected_weight = Zero
    /\ form.pitch_correction # Zero
    /\ form.additions # <<>>

\* C7: the resolver computes corrected_weight = as_w - sum of subtraction
\* weights + sum of addition weights, corrected_moment = (as_m +
\* pitch_correction * as_w) - sum of subtraction moments + sum of addition
\* moments and, when corrected_weight > 0, corrected_cg = corrected_moment /
\* corrected_weight; scenario C gives 95500, 58,640,760 and 614.04.
C7_CorrectedTotals ==
    Shown =>
        /\ calc.result.total_weight = FormWeight
        /\ calc.result.total_moment = FormMoment
        /\ calc.corrected_weight = FormCorrectedWeight
        /\ calc.corrected_moment = FormCorrectedMoment
        /\ RPos(calc.corrected_weight) =>
               IsQuotient(calc.corrected_cg, calc.corrected_moment,
                          calc.corrected_weight)
        /\ form = ScenarioForm =>
               /\ calc.result.total_weight = Q(95000)
               /\ calc.result.total_moment = Q(57940760)
               /\ calc.corrected_weight = Q(95500)
               /\ calc.corrected_moment = Q(58640760)
               /\ Hundredths(calc.corrected_cg) = 61404

C7_Witness == Shown /\ form = ScenarioForm

\* C9: a Calculate run fails only for a non-positive total gear weight (the
\* point list of the form is never empty): with a positive total it completes
\* for every pitch correction, adjustment list, LEMAC arm and MAC length, and
\* yields a corrected weight and a corrected CG arm.
C9_OnlyInvalidInputRaises ==
    view # "info" =>
        /\ view = "error" <=> ~RPos(FormWeight)
        /\ view = "error" =>
               error = "Error during calculation: " \o NonPositiveMsg
        /\ Shown =>
               /\ IsNumber(calc.corrected_weight)
               /\ IsNumber(calc.corrected_cg)

C9_Witness ==
    /\ Shown
    /\ ~RPos(form.mac_length)
    /\ ~RPos(calc.corrected_weight)
    /\ form.pitch_correction # Zero

\* C10 as stated: the corrected percent-MAC is None only when lemac_arm is
\* missing or mac_length is missing or non-positive, and is present for every
\* corrected weight otherwise.
C10_Original ==
    Shown =>
        ((calc.corrected_mac_percent = None) <=>
            \/ form.lemac_arm = None
            \/ form.mac_length = None
            \/ ~RPos(form.mac_length))

\* C10, amended: the corrected percent-MAC is None exactly when lemac_arm is
\* missing, mac_length is missing or non-positive, or the corrected weight is
\* <= 0; otherwise it is (corrected_cg - lemac_arm) / mac_length * 100.
C10_CorrectedMacPercent ==
    Shown =>
        LET suppressed ==
                \/ form.lemac_arm = None
                \/ form.mac_length = None
                \/ ~RPos(form.mac_length)
                \/ ~RPos(calc.corrected_weight)
        IN  /\ (calc.corrected_mac_percent = None) <=> suppressed
            /\ ~suppressed =>
                   IsMacPercent(calc.corrected_mac_percent, calc.corrected_cg,
                                form.lemac_arm, form.mac_length)

C10_Witness ==
    /\ Shown
    /\ RPos(form.mac_length)
    /\ ~RPos(calc.corrected_weight)
    /\ calc.as_mac_percent # None
    /\ calc.corrected_mac_percent = None

\* x rounded to thousandths (half up), as an integer count of thousandths;
\* valid for either sign.
Thousandths(x) == (2000 * x[1] + x[2]) \div (2 * x[2])

ScenarioCall ==
    /\ cg_call.weigh_points = ScenarioPoints
    /\ cg_call.lemac_arm = Q(610)
    /\ cg_call.mac_length = Q(130)

\* C11 as stated: for the Boeing 737 scenario with lemac_arm 610 and
\* mac_length 130 the returned mac_percent is -0.077 to three decimals.
C11_Original ==
    (CgDone /\ ScenarioCall) =>
      /\ ~cg_out.raised
      /\ cg_out.value.mac_percent # None
      /\ Thousandths(cg_out.value.mac_percent) = -77

\* C11: for the Boeing 737 scenario with lemac_arm 610 and mac_length 130
\* compute_cg returns mac_percent = (cg_arm - 610) / 130 * 100 with cg_arm =
\* 57,940,760 / 95000, which is -462/6175, i.e. -0.075 to three decimals
\* (-0.0748), a CG slightly forward of LEMAC.
C11_ScenarioMacPercent ==
    (CgDone /\ ScenarioCall) =>
      /\ ~cg_out.raised
      /\ cg_out.value.mac_percent # None
      /\ IsMacPercent(cg_out.value.mac_percent, cg_out.value.cg_arm,
                      Q(610), Q(130))
      /\ cg_out.value.mac_percent = Rat(-462, 6175)
      /\ Thousandths(cg_out.value.mac_percent) = -75
      /\ ~RPos(cg_out.value.mac_percent)

C11_Witness == CgReturned /\ ScenarioCall

NoAdjustments == form.subtractions = <<>> /\ form.additions = <<>>

\* C12: with empty subtraction and addition lists the pitch-corrected moment
\* is as_m + pitch_correction * as_w, the corrected weight is the (positive)
\* as-weighed weight, and the corrected CG arm is the as-weighed CG arm plus
\* pitch_correction, whatever the pitch correction.
C12_PitchShiftsCg ==
    (Shown /\ NoAdjustments) =>
      /\ calc.corrected_weight = calc.result.total_weight
      /\ RPos(calc.corrected_weight)
      /\ calc.corrected_moment =
           RAdd(calc.result.total_moment,
                RMul(form.pitch_correction, calc.result.total_weight))
      /\ calc.corrected_cg = RAdd(calc.result.cg_arm, form.pitch_correction)

C12_Witness ==
    /\ Shown
    /\ NoAdjustments
    /\ form.pitch_correction = Rat(-1, 2)
    /\ calc.corrected_cg # calc.result.cg_arm

\* The form with the traceability-only inputs at their defaults.
Untraced(f) ==
    [f EXCEPT !.gear_serials = BlankSerials(f.aircraft_model),
              !.pitch_attitude_deg = Q(0)]

\* The points without their names and serials.
Unnamed(points) ==
    [i \in 1..Len(points) |->
       WeighPoint("", points[i].weight, points[i].arm, "")]

\* The numeric lines of the PDF summary.
PdfNumbers(summary) ==
    <<summary.final_weight, summary.final_cg, summary.final_mac>>

\* C13: the numeric outputs do not depend on the traceability-only inputs:
\* a Calculate run shows the same outcome, the same as-weighed and corrected
\* weight, moment, CG arm and percent-MAC, the same figures and the same
\* numbers in the PDF as the run on the form that differs only in the scale
\* serials and the pitch attitude, and compute_cg returns the same result on
\* the points without names and serials.
C13_TraceabilityInputsInert ==
    view # "info" =>
      LET o == CalculateBlock(Untraced(form))
          r == compute_cg(Unnamed(BuildPoints(form)), form.lemac_arm,
                          form.mac_length)
      IN  /\ (view = "error") = o.raised
          /\ view = "error" => error = "Error during calculation: " \o o.msg
          /\ calc = o.calc
          /\ figs = o.figs
          /\ PdfNumbers(pdf) = PdfNumbers(o.pdf)
          /\ Shown => calc.result = r.value

C13_Witness ==
    /\ Shown
    /\ form.gear_serials # BlankSerials(form.aircraft_model)
    /\ form.pitch_attitude_deg # Q(0)
    /\ pdf # CalculateBlock(Untraced(form)).pdf
    /\ form.pitch_correction # Q(0)
    /\ form.subtractions # <<>>
    /\ calc.corrected_mac_percent # None

AdjDone == adj_pc = "done"

\* The corrected values of a resolver outcome.
CorrectedValues(out) ==
    <<out.raised, out.value.corrected_weight, out.value.corrected_moment,
      out.value.corrected_cg>>

Below(a, b) == RPos(RSub(b, a))

MacAvailable ==
    calc.as_mac_percent # None \/ calc.corrected_mac_percent # None

\* C15 as stated: on a successful Calculate with a percent-MAC available the
\* envelope plot is generated exactly when min_weight < max_weight and
\* fwd_limit < aft_limit.
C15_Original ==
    (Shown /\ MacAvailable) =>
      (figs.envelope.drawn <=>
         /\ Below(form.env_min_weight, form.env_max_weight)
         /\ Below(form.env_fwd_limit, form.env_aft_limit))

\* C15: a Calculate whose gear weights sum to a positive value succeeds
\* whatever the envelope limits are, and it generates the envelope plot
\* exactly when a percent-MAC is available, min_weight > 0, min_weight <
\* max_weight and fwd_limit < aft_limit; a zero minimum weight skips the
\* plot like limits out of order do.
C15_EnvelopePlotGate ==
    (view # "info" /\ RPos(FormWeight)) =>
      /\ Shown
      /\ figs.envelope.drawn <=>
           /\ MacAvailable
           /\ RPos(form.env_min_weight)
           /\ Below(form.env_min_weight, form.env_max_weight)
           /\ Below(form.env_fwd_limit, form.env_aft_limit)

C15_Witness ==
    /\ Shown
    /\ figs.envelope.drawn
    /\ figs.envelope.as_point
    /\ form.env_min_weight = Q(1)
    /\ form.env_max_weight = Q(5)

\* A zero minimum weight under otherwise ordered limits: the plot is skipped.
C15_ZeroMinimumSkipped ==
    /\ Shown
    /\ MacAvailable
    /\ form.env_min_weight = Q(0)
    /\ Below(form.env_min_weight, form.env_max_weight)
    /\ Below(form.env_fwd_limit, form.env_aft_limit)
    /\ ~figs.envelope.drawn

\* What the page shows after a run of the Calculate block on the form f.
OutcomeOf(f) ==
    LET o == CalculateBlock(f)
    IN  <<IF o.raised THEN "error" ELSE "results",
          IF o.raised THEN "Error during calculation: " \o o.msg ELSE "",
          o.calc, o.pdf, o.figs>>

C17_AsWeighedUntouched ==
    [][view' = "results" =>
         LET r == compute_cg(BuildPoints(form), form.lemac_arm,
                             form.mac_length).value
         IN  /\ form' = form
             /\ calc'.result = r
             /\ r.total_weight = FormWeight
             /\ r.total_moment = FormMoment
             /\ pdf'.as_weight = r.total_weight
             /\ pdf'.as_cg = r.cg_arm]_vars

C17_Witness ==
    /\ Shown
    /\ form.subtractions # <<>>
    /\ form.additions # <<>>
    /\ form.pitch_correction = Q(1)
    /\ calc.corrected_weight # calc.result.total_weight
    /\ calc.corrected_moment # calc.result.total_moment
    /\ calc.corrected_cg # calc.result.cg_arm
    /\ calc.corrected_mac_percent # None
    /\ calc.corrected_mac_percent # calc.result.mac_percent
    /\ pdf.final_weight # pdf.as_weight

\* C18: when compute_cg raises during Calculate the exception is caught and
\* shown as "Error during calculation: <message>", and nothing else of the
\* invocation is on the page: no results, no diagram, no envelope plot, no
\* PDF.
C18_ErrorOnly ==
    view # "info" =>
      LET r == compute_cg(BuildPoints(form), form.lemac_arm, form.mac_length)
      IN  r.raised =>
            /\ view = "error"
            /\ error = "Error during calculation: " \o r.msg
            /\ calc = NoLocals
            /\ pdf = NoPdf
            /\ figs = NoFigs

\* All gear weights 0, with a MAC and envelope limits that would have given
\* both figures.
C18_Witness ==
    /\ view = "error"
    /\ error = "Error during calculation: Total weight must be positive."
    /\ \A i \in 1..Len(form.gear_w) : form.gear_w[i] = Q(0)
    /\ RPos(form.mac_length)
    /\ EnvelopeGate(form.env_min_weight, form.env_max_weight,
                    form.env_fwd_limit, form.env_aft_limit, Q(0), Q(0))
    /\ form.gear_serials # BlankSerials(form.aircraft_model)

\* C19: the resolver repeated in build_pdf_report agrees with the one of the
\* Calculate block: the final weight and the final CG arm of the PDF are the
\* corrected weight and the corrected CG arm shown on screen, also when the
\* corrected weight is <= 0 and the CG arm falls back to the as-weighed one,
\* and the PDF prints a final percent-MAC exactly when the corrected
\* percent-MAC on screen is not None, with its value.
C19_PdfAgreesWithScreen ==
    Shown =>
      /\ pdf.final_weight = calc.corrected_weight
      /\ pdf.final_cg = calc.corrected_cg
      /\ (pdf.final_mac # None) <=> (calc.corrected_mac_percent # None)
      /\ pdf.final_mac = calc.corrected_mac_percent
      /\ ~RPos(calc.corrected_weight) =>
           /\ pdf.final_cg = calc.result.cg_arm
           /\ pdf.final_mac = None

C19_Witness ==
    /\ Shown
    /\ ~RPos(calc.corrected_weight)
    /\ form.pitch_correction # Q(0)
    /\ calc.as_mac_percent # None
    /\ pdf.final_weight = calc.corrected_weight
    /\ pdf.final_cg = calc.result.cg_arm
    /\ pdf.final_mac = None

\* The PDF of a corrected weight > 0 under adjustments and a pitch correction.
C19_WitnessCorrected ==
    /\ Shown
    /\ RPos(calc.corrected_weight)
    /\ form.pitch_correction # Q(0)
    /\ form.subtractions # <<>>
    /\ pdf.final_cg = calc.corrected_cg
    /\ pdf.final_cg # calc.result.cg_arm
    /\ pdf.final_mac # None

\* a <= b
AtMost(a, b) == ~RPos(RSub(a, b))

ArmsOf(pts) == {pts[i].arm : i \in 1..Len(pts)}

\* x lies between the smallest and the largest arm of the points.
WithinArms(x, pts) ==
    /\ \E a \in ArmsOf(pts) : AtMost(a, x)
    /\ \E a \in ArmsOf(pts) : AtMost(x, a)

NonNegativeWeights(pts) ==
    \A i \in 1..Len(pts) : pts[i].weight[1] >= 0

\* C20: when every point weight is non-negative and the total weight is
\* positive, compute_cg returns a cg_arm between the smallest and the largest
\* arm of the points, bounds included.  (With weights of both signs the same
\* call can return a cg_arm outside that range: C20_OutsideWithMixedSigns.)
C20_CgWithinArms ==
    (CgDone /\ NonNegativeWeights(cg_call.weigh_points)
            /\ cg_call.weigh_points # <<>>
            /\ RPos(SumRight(WeightsOf(cg_call.weigh_points)))) =>
      /\ ~cg_out.raised
      /\ WithinArms(cg_out.value.cg_arm, cg_call.weigh_points)

\* Weights 1 @ -1 and 1 @ 3: the CG arm 1 lies strictly inside the arms.
C20_Witness ==
    /\ CgReturned
    /\ Len(cg_call.weigh_points) = 2
    /\ NonNegativeWeights(cg_call.weigh_points)
    /\ cg_call.weigh_points[1].arm # cg_call.weigh_points[2].arm
    /\ RPos(cg_call.weigh_points[1].weight)
    /\ RPos(cg_call.weigh_points[2].weight)
    /\ WithinArms(cg_out.value.cg_arm, cg_call.weigh_points)
    /\ cg_out.value.cg_arm \notin ArmsOf(cg_call.weigh_points)

\* Weights of both signs that compute_cg accepts, with the CG arm outside the
\* range of the arms (2 @ 3 and -1 @ -1 give 7).
C20_OutsideWithMixedSigns ==
    /\ CgReturned
    /\ ~NonNegativeWeights(cg_call.weigh_points)
    /\ ~WithinArms(cg_out.value.cg_arm, cg_call.weigh_points)

\* C21: on the Calculate path draw_cg_envelope_plot is only called with
\* limits that pass its own validation (min_weight > 0, max_weight >
\* min_weight, aft_limit > fwd_limit), so "Invalid CG envelope limits." is
\* never the error shown, whatever limits are typed; and the corrected point
\* is on the plot only when the corrected percent-MAC is not None and the
\* corrected weight is > 0.
C21_EnvelopeCallValid ==
    view # "info" =>
      /\ error # "Error during calculation: Invalid CG envelope limits."
      /\ EnvelopeGate(form.env_min_weight, form.env_max_weight,
                      form.env_fwd_limit, form.env_aft_limit,
                      calc.as_mac_percent, calc.corrected_mac_percent)
           => ~draw_cg_envelope_plot(form.env_min_weight, form.env_max_weight,
                                     form.env_fwd_limit, form.env_aft_limit,
                                     calc.result.total_weight,
                                     calc.as_mac_percent,
                                     calc.corrected_weight,
                                     calc.corrected_mac_percent).raised
      /\ figs.envelope.drawn =>
           /\ RPos(form.env_min_weight)
           /\ Below(form.env_min_weight, form.env_max_weight)
           /\ Below(form.env_fwd_limit, form.env_aft_limit)
      /\ figs.envelope.corrected_point =>
           /\ figs.envelope.drawn
           /\ calc.corrected_mac_percent # None
           /\ RPos(calc.corrected_weight)

\* The plot drawn with the as-weighed point only: the corrected weight is
\* <= 0, so there is no corrected percent-MAC.
C21_Witness ==
    /\ Shown
    /\ figs.envelope.drawn
    /\ figs.envelope.as_point
    /\ ~figs.envelope.corrected_point
    /\ ~RPos(calc.corrected_weight)
    /\ calc.corrected_mac_percent = None

\* The plot drawn with both points.
C21_WitnessBothPoints ==
    /\ Shown
    /\ figs.envelope.drawn
    /\ figs.envelope.as_point
    /\ figs.envelope.corrected_point
    /\ form.subtractions # <<>>

\* Limits that fail the validation are typed in and Calculate succeeds
\* without the plot.
C21_WitnessInvalidLimits ==
    /\ Shown
    /\ MacAvailable
    /\ ~Below(form.env_fwd_limit, form.env_aft_limit)
    /\ RPos(form.env_min_weight)
    /\ ~figs.envelope.drawn

====
